---- MODULE Spec2Model ----
(***************************************************************************)
(* tap-exchangeratesapi: the incremental sync of daily exchange rates.     *)
(*                                                                         *)
(* A date string 'YYYY-MM-DD' is modelled as the triple <<y, m, d>>; a     *)
(* datetime is modelled by its proleptic Gregorian day ordinal (dates are  *)
(* compared at day precision only).  A Python dict is modelled as a        *)
(* sequence of <<key, value>> pairs when its order matters (rates, record) *)
(* and as a function when it does not (schema).  A rate is an integer      *)
(* number of eighths (exactly representable binary floats); a rounded rate *)
(* is an integer number of hundredths.                                     *)
(***************************************************************************)
EXTENDS Integers, Sequences, FiniteSets, TLC

VARIABLES
    pc,           \* position of the process: main, do_sync, loop, day, finish, done, exited
    run,          \* number of the current process invocation
    now,          \* UTC clock, at day precision (ordinal)
    today,        \* the value datetime.utcnow() returned at the last loop test
    config,       \* config file: base, start_date, api_key
    stateFile,    \* state file handed to the process (NoDate or a start_date)
    start_date,   \* do_sync argument
    state,        \* do_sync local: {'start_date': ...}
    next_date,    \* do_sync local
    schema,       \* module-level schema (properties only; 'type' is constant)
    prev_schema,  \* do_sync local
    out,          \* singer messages written to stdout by this process
    calls,        \* HTTP GETs issued by this process (days requested)
    dayLog,       \* one entry per completed loop iteration of this process
    failure,      \* what ended the process: none, config, status, json, network
    lastStatus,   \* HTTP status of the last response received (0 = none)
    exitStatus,   \* exit status of the process as the caller sees it (-1 = running)
    prevRuns,     \* summary of the earlier processes: days fetched, days emitted
    req           \* a call of the request helper: position, tries, outcomes, exception

vars == <<pc, run, now, today, config, stateFile, start_date, state, next_date,
          schema, prev_schema, out, calls, dayLog, failure, lastStatus,
          exitStatus, prevRuns, req>>

\* a missing date (None); a missing api key is the empty string
NoDate == <<>>
NoKey == ""

-----------------------------------------------------------------------------
(* Bounds *)

\* number of calendar days in the window the clock and the start dates live in
MaxDay == 2
\* largest provider rate, in eighths
MaxRate == 2

-----------------------------------------------------------------------------
(* Calendar: datetime.strptime / strftime with DATE_FORMAT, timedelta(days=1) *)

IsLeap(y) == (y % 4 = 0) /\ ((y % 100 # 0) \/ (y % 400 = 0))

DaysInMonth(y, m) ==
    IF m = 2 THEN (IF IsLeap(y) THEN 29 ELSE 28)
    ELSE IF m \in {4, 6, 9, 11} THEN 30 ELSE 31

DaysBeforeYear(y) ==
    LET p == y - 1 IN p * 365 + (p \div 4) - (p \div 100) + (p \div 400)

RECURSIVE DaysBeforeMonth(_, _)
DaysBeforeMonth(y, m) ==
    IF m = 1 THEN 0 ELSE DaysBeforeMonth(y, m - 1) + DaysInMonth(y, m - 1)

\* datetime.strptime(s, DATE_FORMAT), as a day ordinal
Strptime(s) == DaysBeforeYear(s[1]) + DaysBeforeMonth(s[1], s[2]) + s[3]

RECURSIVE MonthAndDay(_, _, _)
MonthAndDay(y, m, n) ==
    IF n > DaysInMonth(y, m) THEN MonthAndDay(y, m + 1, n - DaysInMonth(y, m))
    ELSE <<y, m, n>>

\* datetime.strftime(DATE_FORMAT) of a day ordinal (datetime._ord2ymd)
Strftime(ord) ==
    LET n0   == ord - 1
        n400 == n0 \div 146097
        r400 == n0 % 146097
        n100 == r400 \div 36524
        r100 == r400 % 36524
        n4   == r100 \div 1461
        r4   == r100 % 1461
        n1   == r4 \div 365
        r1   == r4 % 365
        y    == n400 * 400 + n100 * 100 + n4 * 4 + n1 + 1
    IN  IF n1 = 4 \/ n100 = 4 THEN <<y - 1, 12, 31>>
        ELSE MonthAndDay(y, 1, r1 + 1)

\* mutant: the step is two days
AddTwoDays(d) == Strftime(Strptime(d) + 2)

\* mutant: the step is no day at all
AddNoDay(d) == Strftime(Strptime(d))

\* (strptime(d) + timedelta(days=1)).strftime(DATE_FORMAT)
AddOneDay(d) == Strftime(Strptime(d) + 1)

\* time.strftime('%Y-%m-%dT%H:%M:%SZ', time.strptime(d, DATE_FORMAT))
Timestamp(d) == <<d[1], d[2], d[3], 0, 0, 0>>

\* the window of calendar days of the model; it spans a leap day and a month end
FirstDay == <<2024, 2, 29>>
Days == {Strftime(Strptime(FirstDay) + i) : i \in 0 .. (MaxDay - 1)}
LastOrdinal == Strptime(FirstDay) + MaxDay - 1

-----------------------------------------------------------------------------
(* Inputs: configuration and provider responses *)

Currencies == {"USD", "JPY"}
Bases == {"USD", "EUR"}
ApiKeys == {NoKey, "key"}
\* provider rates, in eighths: 0.125, 0.25, ...
RateValues == 1 .. MaxRate
\* HTTP statuses the provider answers with
Statuses == {200, 404, 503}
\* RequestException subclasses requests.get raises; only TooManyRedirects
\* carries a response (and, through it, a request)
ExcKinds == {"ConnectionError", "TooManyRedirects"}

Keys(d) == {d[i][1] : i \in 1 .. Len(d)}

\* ordered dicts currency -> rate: no key twice
RatesDicts ==
    {d \in UNION {[1 .. n -> Currencies \X RateValues] : n \in 0 .. Cardinality(Currencies)} :
        Cardinality(Keys(d)) = Len(d)}

\* a decoded 200 body for a request of day d with base b: the provider echoes the
\* base and answers with the requested date or, for a day without published
\* rates, with the day before
PayloadDates(d) == {d, Strftime(Strptime(d) - 1)}
Payloads(d, b) ==
    {[base |-> b, date |-> pd, rates |-> r] : pd \in PayloadDates(d), r \in RatesDicts}

-----------------------------------------------------------------------------
(* Response normalizer: do_sync lines 77-81 and parse_response *)

\* round(value, 2) of value = k/8: correctly rounded, ties to even; in hundredths
Round2(k) ==
    LET q == (k * 100) \div 8
        r == (k * 100) % 8
    IN  IF r < 4 THEN q
        ELSE IF r > 4 THEN q + 1
        ELSE IF q % 2 = 0 THEN q ELSE q + 1

\* insert item into a list sorted by value, after the items that do not exceed it
RECURSIVE InsertByValue(_, _)
InsertByValue(sorted, item) ==
    IF sorted = <<>> THEN <<item>>
    ELSE IF item[2] < Head(sorted)[2] THEN <<item>> \o sorted
    ELSE <<Head(sorted)>> \o InsertByValue(Tail(sorted), item)

\* mutant: the items are left in the provider's order
SortedByInsertionOrder(items) == items

\* sorted(items, key=lambda item: item[1]): stable, ascending
RECURSIVE SortedByValue(_)
SortedByValue(items) ==
    IF items = <<>> THEN <<>>
    ELSE InsertByValue(SortedByValue(SubSeq(items, 1, Len(items) - 1)), items[Len(items)])

\* {currency: round(value, 2) for currency, value in sorted(...)}
SortedDictionary(rates) ==
    LET s == SortedByValue(rates)
    IN  [i \in 1 .. Len(s) |-> <<s[i][1], Round2(s[i][2])>>]

\* d[key] = value on an ordered dict: in place when the key exists, else appended
DictSet(d, key, value) ==
    IF key \in Keys(d)
    THEN [i \in 1 .. Len(d) |-> IF d[i][1] = key THEN <<key, value>> ELSE d[i]]
    ELSE Append(d, <<key, value>>)

\* the float 1.0, in hundredths
One == 100

\* parse_response(r), r['rates'] being the sorted dictionary
parse_response(r) ==
    DictSet(DictSet(r.rates, r.base, One), "date", Timestamp(r.date))

-----------------------------------------------------------------------------
(* Schema tracker: the module-level schema and do_sync lines 83-90 *)

EmptyDict == <<>>
DateType == "string:date-time"
NumberType == "null|number"

InitialSchema == [type |-> "object", properties |-> [k \in {"date"} |-> DateType]]

\* mutant: the schema is rebuilt from the day's payload alone
UpdateSchemaRebuilt(s, rates) ==
    [type |-> s.type,
     properties |-> [k \in {"date"} \cup Keys(rates) |->
                        IF k = "date" THEN DateType ELSE NumberType]]

\* for rate in payload['rates']: if rate not in properties: properties[rate] = ...
UpdateSchema(s, rates) ==
    [type |-> s.type,
     properties |-> [k \in (DOMAIN s.properties) \cup Keys(rates) |->
                        IF k \in DOMAIN s.properties THEN s.properties[k] ELSE NumberType]]

\* mutant: prev_schema is the schema object itself after the first day (no
\* deep copy), so only the first comparison finds a difference
SchemaChangedAliased(s, prev) == prev = EmptyDict

\* mutant: the schema is compared with the schema as declared at import
SchemaChangedSinceImport(s, prev) == s # InitialSchema

\* schema != prev_schema
SchemaChanged(s, prev) == s # prev

\* mutant: the record is emitted whatever date the provider answered with
DateMatchesAlways(payload, day) == TRUE

\* payload['date'] == next_date
DateMatches(payload, day) == payload.date = day

SchemaMsg(s) == [type |-> "SCHEMA", stream |-> "exchange_rate", schema |-> s, key |-> "date"]
RecordMsg(rec) == [type |-> "RECORD", stream |-> "exchange_rate", record |-> rec]
StateMsg(st) == [type |-> "STATE", value |-> st]

-----------------------------------------------------------------------------
(* Process exit *)

\* max_tries of the retry policy declared for the request helper
MaxTries == 5

\* the exit status the caller sees for sys.exit(n): the low 8 bits
ExitCode(n) == n % 256
\* an uncaught exception ends the interpreter with status 1
UncaughtExit == 1

\* do_sync lines 57-59: the status for a missing api key
ConfigExitArg == 1
\* do_sync line 75: the status for a response other than 200
StatusExitArg == 1
\* do_sync line 104: the status after the RequestException handler
HandlerExitArg == -1

Exit(n, why) ==
    /\ pc' = "exited"
    /\ exitStatus' = ExitCode(n)
    /\ failure' = why

\* whether a RequestException of this kind carries a request / a response
HasRequest(kind) == kind \in {"ConnectionError", "TooManyRedirects"}
HasResponse(kind) == kind = "TooManyRedirects"

\* do_sync lines 99-104: the handler reads e.request.url and
\* e.response.status_code before it writes the state; either being None raises
\* AttributeError out of the handler
HandlerWritesState(kind) == HasRequest(kind) /\ HasResponse(kind)

\* mutant: the handler does not exit, so line 106 writes the state again
HandlerFallsThrough(kind, why) ==
    IF HandlerWritesState(kind)
    THEN /\ out' = Append(Append(out, StateMsg(state)), StateMsg(state))
         /\ pc' = "done"
         /\ exitStatus' = 0
         /\ failure' = why
    ELSE /\ out' = out
         /\ Exit(UncaughtExit, why)

Handler(kind, why) ==
    IF HandlerWritesState(kind)
    THEN /\ out' = Append(out, StateMsg(state))
         /\ Exit(HandlerExitArg, why)
    ELSE /\ out' = out
         /\ Exit(UncaughtExit, why)

-----------------------------------------------------------------------------
(* The request helper and its retry policy: lines 33-49 *)

\* the request helper before it is called
IdleRequest == [pc |-> "idle", tries |-> 0, log |-> <<>>, raised |-> "none"]

\* what one requests.get of the helper ends with: a response with a status, or
\* a connection-level fault, a RequestException that carries no response
HelperStatuses == Statuses \cup {429}
RequestOutcomes ==
    [kind : {"response"}, status : HelperStatuses]
        \cup {[kind |-> "ConnectionError", status |-> 0]}

\* response.raise_for_status() raises HTTPError for a 4xx or 5xx status
RaisesForStatus(status) == status >= 400 /\ status < 600

\* giveup, line 34: error.response.text raises AttributeError when the error
\* carries no response
GiveupRaises(outcome) == outcome.kind # "response"

\* giveup, lines 35-37
giveup(status) == ~(status = 429 \/ status >= 500)

-----------------------------------------------------------------------------
(* State machine *)

Configs == [base : Bases, start_date : Days \cup {NoDate}, api_key : ApiKeys]

Init ==
    /\ pc = "main"
    /\ run = 1
    /\ now \in Strptime(FirstDay) .. LastOrdinal
    /\ today = now
    /\ config \in Configs
    /\ stateFile = NoDate
    /\ start_date = NoDate
    /\ state = [start_date |-> NoDate]
    /\ next_date = NoDate
    /\ schema = InitialSchema
    /\ prev_schema = EmptyDict
    /\ out = <<>>
    /\ calls = <<>>
    /\ dayLog = <<>>
    /\ failure = "none"
    /\ lastStatus = 0
    /\ exitStatus = -1
    /\ prevRuns = [fetched |-> {}, emitted |-> {}, wrote |-> NoDate]
    /\ req = IdleRequest

\* main lines 132-133: state file, else config, else the current UTC date
InitialStartDate ==
    LET chosen == IF stateFile # NoDate THEN stateFile
                  ELSE IF config.start_date # NoDate THEN config.start_date
                  ELSE Strftime(now)
    IN  Strftime(Strptime(chosen))

\* main, up to the call of do_sync
Main ==
    /\ UNCHANGED req
    /\ pc = "main"
    /\ start_date' = InitialStartDate
    /\ pc' = "do_sync"
    /\ UNCHANGED <<run, now, today, config, stateFile, state, next_date, schema,
                   prev_schema, out, calls, dayLog, failure, lastStatus,
                   exitStatus, prevRuns>>

\* mutant: the api key is never found missing
MissingKeyNever(k) == FALSE

\* do_sync line 57: not api_key
MissingKey(k) == k = NoKey

\* do_sync lines 53-59
DoSyncEnter ==
    /\ UNCHANGED req
    /\ pc = "do_sync"
    /\ state' = [start_date |-> start_date]
    /\ next_date' = start_date
    /\ prev_schema' = EmptyDict
    /\ IF MissingKey(config.api_key)
       THEN Exit(ConfigExitArg, "config")
       ELSE pc' = "loop" /\ UNCHANGED <<exitStatus, failure>>
    /\ UNCHANGED <<run, now, today, config, stateFile, start_date, schema, out,
                   calls, dayLog, lastStatus, prevRuns>>

\* mutant: the loop stops one day early
LoopConditionStrict(d, clock) == Strptime(d) < clock

\* do_sync line 62: the loop test reads the clock
LoopCondition(d, clock) == Strptime(d) <= clock

LoopTest ==
    /\ UNCHANGED req
    /\ pc = "loop"
    /\ today' = now
    /\ pc' = IF LoopCondition(next_date, now) THEN "day" ELSE "finish"
    /\ UNCHANGED <<run, now, config, stateFile, start_date, state, next_date,
                   schema, prev_schema, out, calls, dayLog, failure, lastStatus,
                   exitStatus, prevRuns>>

\* do_sync lines 67-68: requests.get raises a RequestException
DayNetworkError(kind) ==
    /\ UNCHANGED req
    /\ pc = "day"
    /\ calls' = Append(calls, next_date)
    /\ Handler(kind, "network")
    /\ UNCHANGED <<run, now, today, config, stateFile, start_date, state,
                   next_date, schema, prev_schema, dayLog, lastStatus, prevRuns>>

\* do_sync line 69: the body is not JSON; response.json() raises JSONDecodeError,
\* a RequestException without request and response
DayBadBody(status) ==
    /\ UNCHANGED req
    /\ pc = "day"
    /\ calls' = Append(calls, next_date)
    /\ lastStatus' = status
    /\ Handler("JSONDecodeError", "json")
    /\ UNCHANGED <<run, now, today, config, stateFile, start_date, state,
                   next_date, schema, prev_schema, dayLog, prevRuns>>

\* mutant: a day answered with another status is skipped and the loop goes on
DayBadStatusSkips(status) ==
    /\ UNCHANGED req
    /\ pc = "day"
    /\ status # 200
    /\ calls' = Append(calls, next_date)
    /\ lastStatus' = status
    /\ next_date' = AddOneDay(next_date)
    /\ pc' = "loop"
    /\ UNCHANGED <<run, now, today, config, stateFile, start_date, state, schema,
                   prev_schema, out, dayLog, failure, exitStatus, prevRuns>>

\* do_sync lines 72-75: a JSON body with a status other than 200
DayBadStatus(status) ==
    /\ UNCHANGED req
    /\ pc = "day"
    /\ status # 200
    /\ calls' = Append(calls, next_date)
    /\ lastStatus' = status
    /\ Exit(StatusExitArg, "status")
    /\ UNCHANGED <<run, now, today, config, stateFile, start_date, state,
                   next_date, schema, prev_schema, out, dayLog, prevRuns>>

\* mutant: the cursor runs two days ahead of the day just processed
CheckpointAhead(day) == [start_date |-> AddOneDay(AddOneDay(day))]

\* do_sync line 95: the cursor after a completed day
Checkpoint(day) == [start_date |-> day]

\* do_sync lines 67-97: one complete iteration on a 200 response
DayOK(payload) ==
    /\ UNCHANGED req
    /\ pc = "day"
    /\ LET sorted    == [payload EXCEPT !.rates = SortedDictionary(payload.rates)]
           grown     == UpdateSchema(schema, sorted.rates)
           announce  == SchemaChanged(grown, prev_schema)
           emit      == DateMatches(sorted, next_date)
           out1      == IF announce THEN Append(out, SchemaMsg(grown)) ELSE out
           out2      == IF emit THEN Append(out1, RecordMsg(parse_response(sorted))) ELSE out1
       IN  /\ calls' = Append(calls, next_date)
           /\ lastStatus' = 200
           /\ schema' = grown
           /\ out' = out2
           /\ state' = Checkpoint(next_date)
           /\ next_date' = AddOneDay(next_date)
           /\ prev_schema' = grown
           /\ dayLog' = Append(dayLog,
                 [day |-> next_date,
                  payloadDate |-> payload.date,
                  payloadFields |-> Keys(payload.rates),
                  newFields |-> Keys(payload.rates) \ DOMAIN schema.properties,
                  fieldsBefore |-> DOMAIN schema.properties,
                  fieldsAfter |-> DOMAIN grown.properties,
                  wroteSchema |-> Len(out1) > Len(out),
                  emitted |-> Len(out2) > Len(out1)])
    /\ pc' = "loop"
    /\ UNCHANGED <<run, now, today, config, stateFile, start_date, failure,
                   exitStatus, prevRuns>>

\* do_sync lines 106-107
Finish ==
    /\ UNCHANGED req
    /\ pc = "finish"
    /\ out' = Append(out, StateMsg(state))
    /\ pc' = "done"
    /\ exitStatus' = 0
    /\ UNCHANGED <<run, now, today, config, stateFile, start_date, state,
                   next_date, schema, prev_schema, calls, dayLog, failure,
                   lastStatus, prevRuns>>

\* the UTC clock passes midnight; it is read by main and by the loop test only
Tick ==
    /\ UNCHANGED req
    /\ pc \in {"main", "loop"}
    /\ now < LastOrdinal
    /\ now' = now + 1
    /\ UNCHANGED <<pc, run, today, config, stateFile, start_date, state,
                   next_date, schema, prev_schema, out, calls, dayLog, failure,
                   lastStatus, exitStatus, prevRuns>>

\* the STATE messages of the output
StateWrites(o) == SelectSeq(o, LAMBDA m : m.type = "STATE")
RecordWrites(o) == SelectSeq(o, LAMBDA m : m.type = "RECORD")
SchemaWrites(o) == SelectSeq(o, LAMBDA m : m.type = "SCHEMA")

\* days of the completed iterations that emitted a record
EmittedDays == {dayLog[i].day : i \in {j \in 1 .. Len(dayLog) : dayLog[j].emitted}}
FetchedDays == {calls[i] : i \in 1 .. Len(calls)}

\* the runner keeps the last STATE message as the state file of the next run
NextStateFile ==
    LET w == StateWrites(out)
    IN  IF w = <<>> THEN stateFile ELSE w[Len(w)].value.start_date

Runs == {1, 2}

\* the tap is run again, with the state the process before it left behind
NewProcess ==
    /\ UNCHANGED req
    /\ pc \in {"done", "exited"}
    /\ run + 1 \in Runs
    /\ run' = run + 1
    /\ stateFile' = NextStateFile
    /\ prevRuns' = [fetched |-> prevRuns.fetched \cup FetchedDays,
                    emitted |-> prevRuns.emitted \cup EmittedDays,
                    wrote |-> IF pc = "done" THEN NextStateFile ELSE NoDate]
    /\ pc' = "main"
    /\ start_date' = NoDate
    /\ state' = [start_date |-> NoDate]
    /\ next_date' = NoDate
    /\ schema' = InitialSchema
    /\ prev_schema' = EmptyDict
    /\ out' = <<>>
    /\ calls' = <<>>
    /\ dayLog' = <<>>
    /\ failure' = "none"
    /\ lastStatus' = 0
    /\ exitStatus' = -1
    /\ UNCHANGED <<now, today, config>>

Next ==
    \/ Main
    \/ DoSyncEnter
    \/ LoopTest
    \/ \E kind \in ExcKinds : DayNetworkError(kind)
    \/ \E status \in Statuses : DayBadBody(status)
    \/ \E status \in Statuses : DayBadStatus(status)
    \/ pc = "day" /\ \E payload \in Payloads(next_date, config.base) : DayOK(payload)
    \/ Finish
    \/ Tick
    \/ NewProcess

Spec == Init /\ [][Next]_vars

\* a step the interpreter takes by itself, running main and do_sync
InterpreterStep ==
    \/ Main
    \/ DoSyncEnter
    \/ LoopTest
    \/ Finish

\* the HTTP call of line 68 ends, with a response or an exception, and the rest
\* of the iteration runs.  requests.get is called without a timeout: while the
\* provider holds the connection and sends nothing the process stays at
\* pc = "day", and nothing in the code ends the wait
HttpCallEnds ==
    \/ \E kind \in ExcKinds : DayNetworkError(kind)
    \/ \E status \in Statuses : DayBadBody(status)
    \/ \E status \in Statuses : DayBadStatus(status)
    \/ pc = "day" /\ \E payload \in Payloads(next_date, config.base) : DayOK(payload)

\* a step of the process
ProcessStep ==
    \/ InterpreterStep
    \/ HttpCallEnds

\* request(url, params) is called
RequestCall ==
    /\ req.pc = "idle"
    /\ req' = [req EXCEPT !.pc = "calling"]
    /\ UNCHANGED <<pc, run, now, today, config, stateFile, start_date, state,
                   next_date, schema, prev_schema, out, calls, dayLog, failure,
                   lastStatus, exitStatus, prevRuns>>

\* one try of the helper under backoff.on_exception: the call returns, or its
\* exception is handed to giveup and then retried or raised
RequestTry(outcome) ==
    /\ req.pc = "calling"
    /\ LET n     == req.tries + 1
           tried == [req EXCEPT !.tries = n, !.log = Append(req.log, outcome)]
       IN  req' =
             IF outcome.kind = "response" /\ ~RaisesForStatus(outcome.status)
             THEN [tried EXCEPT !.pc = "returned"]
             ELSE IF GiveupRaises(outcome)
             THEN [tried EXCEPT !.pc = "raised", !.raised = "AttributeError"]
             ELSE IF giveup(outcome.status) \/ n = MaxTries
             THEN [tried EXCEPT !.pc = "raised", !.raised = "HTTPError"]
             ELSE tried
    /\ UNCHANGED <<pc, run, now, today, config, stateFile, start_date, state,
                   next_date, schema, prev_schema, out, calls, dayLog, failure,
                   lastStatus, exitStatus, prevRuns>>

RequestNext ==
    \/ RequestCall
    \/ \E outcome \in RequestOutcomes : RequestTry(outcome)

\* the request helper called in a fresh process
RequestSpec == Init /\ [][RequestNext]_vars

\* one process from its start to its end, with the clock running beside it
RunNext ==
    \/ ProcessStep
    \/ Tick

\* the interpreter keeps taking its own steps; nothing obliges the clock to pass
\* midnight, and nothing obliges the provider to answer: a process may stay
\* blocked in the HTTP call of line 68 for ever
FairSpec == Init /\ [][RunNext]_vars /\ WF_vars(InterpreterStep)

-----------------------------------------------------------------------------
(* Properties *)

LastStateWritten == StateWrites(out)[Len(StateWrites(out))].value.start_date

\* the last day whose iteration completed, or the initial start_date
LastCompletedDay == IF dayLog = <<>> THEN start_date ELSE dayLog[Len(dayLog)].day

\* number of HTTP GETs issued for day d by this process
Attempts(d) == Cardinality({i \in 1 .. Len(calls) : calls[i] = d})

\* C1: a run started from the state a successful run wrote, the earlier run
\* having emitted records, first fetches the day after the checkpoint and
\* fetches no day the earlier run emitted a record for.
C1_RerunStartsAfterCheckpoint ==
    (run = 2 /\ prevRuns.wrote # NoDate /\ prevRuns.emitted # {} /\ calls # <<>>)
        => /\ calls[1] = AddOneDay(prevRuns.wrote)
           /\ FetchedDays \cap prevRuns.emitted = {}

\* C2: when the HTTP call raised a RequestException, the process has written a
\* state before exiting, and its start_date is the last completed day (or the
\* initial start_date when no day completed).
C2_NetworkFailureWritesState ==
    (pc = "exited" /\ failure = "network")
        => /\ StateWrites(out) # <<>>
           /\ LastStateWritten = LastCompletedDay

\* C3: when a day's response has a status other than 200, the process has
\* written the last-known-good checkpoint before exiting with a failure status.
C3_BadStatusWritesState ==
    (pc = "exited" /\ failure = "status")
        => /\ StateWrites(out) # <<>>
           /\ LastStateWritten = LastCompletedDay
           /\ exitStatus # 0

\* C4: a day answered with 503 has been fetched exactly 5 times when the run
\* fails, a day answered with 404 exactly once.
C4_RetryBound ==
    (pc = "exited" /\ failure = "status")
        => /\ lastStatus = 503 => Attempts(calls[Len(calls)]) = MaxTries
           /\ lastStatus = 404 => Attempts(calls[Len(calls)]) = 1

\* C5: a schema declaration is written on a processed day exactly when that day
\* is the first processed day of the run or its payload holds a currency the
\* schema did not hold before that day.
C5_SchemaAnnouncedIffGrown ==
    \A i \in 1 .. Len(dayLog) :
        dayLog[i].wroteSchema <=> (i = 1 \/ dayLog[i].newFields # {})

C5_Witness ==
    /\ Len(dayLog) = 2
    /\ dayLog[1].wroteSchema
    /\ dayLog[2].newFields = {}
    /\ ~dayLog[2].wroteSchema
    /\ Len(SchemaWrites(out)) = 1

\* C6: within a process the field set of the schema only grows: every step
\* leaves every declared field declared, also when a day's payload omits it.
C6_SchemaMonotonic ==
    [][run' = run => DOMAIN schema.properties \subseteq DOMAIN schema'.properties]_vars

C6_Witness ==
    /\ Len(dayLog) = 2
    /\ "JPY" \in dayLog[1].payloadFields
    /\ "JPY" \notin dayLog[2].payloadFields
    /\ "JPY" \in DOMAIN schema.properties

\* C7: without an api key the process issues no HTTP request and writes no
\* schema, record or state, and it goes no further than the key check.
C7_NoKeyNoActivity ==
    config.api_key = NoKey
        => /\ calls = <<>>
           /\ out = <<>>
           /\ pc \in {"main", "do_sync", "exited"}
           /\ pc = "exited" => failure = "config"

C7_Witness == pc = "exited" /\ failure = "config" /\ config.api_key = NoKey

\* C8: the exit status of a provider failure (a status other than 200, or a
\* network failure) differs from the exit status of a missing api key.
C8_ConfigExitDistinct ==
    (pc = "exited" /\ failure \in {"status", "network"})
        => exitStatus # ExitCode(ConfigExitArg)

\* C9: on normal completion exactly one state has been written, as the last
\* message, and its start_date is the UTC date the final loop test read when the
\* initial start_date is not after it, and the initial start_date otherwise.
C9_FinalState ==
    pc = "done"
        => /\ Len(StateWrites(out)) = 1
           /\ out[Len(out)].type = "STATE"
           /\ LastStateWritten = LastCompletedDay
           /\ LastStateWritten =
                 IF Strptime(start_date) <= today THEN Strftime(today) ELSE start_date

C9_Witness ==
    /\ pc = "done"
    /\ Len(dayLog) = 2
    /\ LastStateWritten = Strftime(today)
    /\ LastStateWritten # start_date

\* C10: on a 200 response a record is emitted exactly when the payload's date is
\* the requested day; either way the cursor is set to the requested day and the
\* next day to fetch is the day after it.
C10_EmitIffDateMatches ==
    \A i \in 1 .. Len(dayLog) :
        /\ dayLog[i].emitted <=> dayLog[i].payloadDate = dayLog[i].day
        /\ i < Len(dayLog) => dayLog[i + 1].day = AddOneDay(dayLog[i].day)
        /\ i = Len(dayLog) => /\ state.start_date = dayLog[i].day
                              /\ next_date = AddOneDay(dayLog[i].day)

C10_Witness ==
    /\ Len(dayLog) = 2
    /\ dayLog[1].payloadDate # dayLog[1].day
    /\ ~dayLog[1].emitted
    /\ dayLog[2].emitted
    /\ Len(RecordWrites(out)) = 1
    /\ state.start_date = dayLog[2].day

\* the entries of a record that come from the provider's rates: every entry but
\* the date and the base currency set by parse_response
ProviderEntries(rec, base) ==
    SelectSeq(rec, LAMBDA e : e[1] # "date" /\ e[1] # base)

\* the value a record holds for a key
ValueOf(rec, key) == (CHOOSE e \in {rec[i] : i \in 1 .. Len(rec)} : e[1] = key)[2]

\* C11: in every emitted record the base currency maps to 1.0 and the entries
\* taken from the provider's rates are in non-decreasing order of their rounded
\* values.
C11_RecordNormalized ==
    \A i \in 1 .. Len(out) :
        out[i].type = "RECORD" =>
            LET rec == out[i].record
                p   == ProviderEntries(rec, config.base)
            IN  /\ config.base \in Keys(rec)
                /\ ValueOf(rec, config.base) = One
                /\ \A j \in 1 .. Len(p) - 1 : p[j][2] <= p[j + 1][2]

C11_Witness ==
    \E i \in 1 .. Len(out) :
        /\ out[i].type = "RECORD"
        /\ config.base = "EUR"
        /\ Len(ProviderEntries(out[i].record, config.base)) = 2
        /\ ProviderEntries(out[i].record, config.base)[1][2] = Round2(1)
        /\ ProviderEntries(out[i].record, config.base)[2][2] = Round2(2)

\* the days whose iteration completed in this process
CompletedDays == {dayLog[i].day : i \in 1 .. Len(dayLog)}

\* C12: whenever a state has been written, every day from the initial
\* start_date up to but excluding the written start_date has completed its
\* iteration, and the written date is not before the initial start_date; a
\* process started from a state file resumes at the date in it.
C12_NoGapBeforeCheckpoint ==
    /\ StateWrites(out) # <<>> =>
          /\ Strptime(start_date) <= Strptime(LastStateWritten)
          /\ \A o \in Strptime(start_date) .. (Strptime(LastStateWritten) - 1) :
                Strftime(o) \in CompletedDays
    /\ (stateFile # NoDate /\ pc # "main") => start_date = stateFile

C12_Witness ==
    /\ pc = "done"
    /\ StateWrites(out) # <<>>
    /\ Strptime(LastStateWritten) = Strptime(start_date) + 1
    /\ start_date \in CompletedDays

\* the day a record is for: the date part of its timestamp, as an ordinal
RecordDay(rec) ==
    LET t == ValueOf(rec, "date") IN Strptime(<<t[1], t[2], t[3]>>)

\* C13: once a response with a status other than 200 has been received the
\* process has exited; the day it was for is the last day fetched, it did not
\* complete, and every schema declaration and record of the output belongs to
\* a day completed before it.
C13_BadStatusEndsRun ==
    lastStatus \notin {0, 200} =>
        /\ pc = "exited"
        /\ calls[Len(calls)] = next_date
        /\ \A i \in 1 .. Len(calls) - 1 : Strptime(calls[i]) < Strptime(next_date)
        /\ next_date \notin CompletedDays
        /\ Len(RecordWrites(out)) = Cardinality({i \in 1 .. Len(dayLog) : dayLog[i].emitted})
        /\ Len(SchemaWrites(out)) = Cardinality({i \in 1 .. Len(dayLog) : dayLog[i].wroteSchema})
        /\ \A i \in 1 .. Len(out) :
              out[i].type = "RECORD" => RecordDay(out[i].record) < Strptime(next_date)

C13_Witness ==
    /\ pc = "exited"
    /\ failure = "status"
    /\ lastStatus = 404
    /\ calls = <<start_date>>
    /\ out = <<>>
    /\ now > Strptime(next_date)

\* the records of the output, in the order written
Records == RecordWrites(out)

\* C14: the days fetched by a process are consecutive calendar days from the
\* initial start_date, ascending, each fetched once; on normal completion they
\* run through the UTC date the final loop test read; the emitted records have
\* strictly increasing dates.
C14_ConsecutiveDays ==
    /\ \A i \in 1 .. Len(calls) : calls[i] = Strftime(Strptime(start_date) + i - 1)
    /\ pc = "done" =>
          Len(calls) = IF Strptime(start_date) <= today
                       THEN today - Strptime(start_date) + 1 ELSE 0
    /\ \A i \in 1 .. Len(Records) - 1 :
          RecordDay(Records[i].record) < RecordDay(Records[i + 1].record)

C14_Witness ==
    /\ pc = "done"
    /\ calls = <<FirstDay, AddOneDay(FirstDay)>>
    /\ Len(Records) = 2
    /\ RecordDay(Records[2].record) = RecordDay(Records[1].record) + 1

\* C15: every record of the output comes after a schema declaration, and the
\* record of a day that added a field to the schema comes directly after the
\* declaration of the schema as grown on that day.
C15_SchemaBeforeRecord ==
    \A i \in 1 .. Len(out) :
        out[i].type = "RECORD" =>
            /\ \E j \in 1 .. i - 1 : out[j].type = "SCHEMA"
            /\ \A k \in 1 .. Len(dayLog) :
                  (Strptime(dayLog[k].day) = RecordDay(out[i].record)
                        /\ dayLog[k].newFields # {})
                    => /\ out[i - 1].type = "SCHEMA"
                       /\ DOMAIN out[i - 1].schema.properties = dayLog[k].fieldsAfter

C15_Witness ==
    /\ Len(out) = 4
    /\ out[1].type = "SCHEMA" /\ out[2].type = "RECORD"
    /\ out[3].type = "SCHEMA" /\ out[4].type = "RECORD"
    /\ dayLog[2].newFields # {}

\* the fields declared by the schema declaration written last before out[i]
DeclaredBefore(i) ==
    LET S == {j \in 1 .. i - 1 : out[j].type = "SCHEMA"}
    IN  IF S = {} THEN {}
        ELSE DOMAIN out[CHOOSE j \in S : \A k \in S : k <= j].schema.properties

\* C16: every field of every emitted record (the date, each provider currency
\* and the base currency) is declared by the schema declaration written last
\* before the record.
C16_RecordFieldsDeclared ==
    \A i \in 1 .. Len(out) :
        out[i].type = "RECORD" => Keys(out[i].record) \subseteq DeclaredBefore(i)

\* C17: a process writes the state at most once; a state in the output is its
\* last message and the process has ended, normally or by the handler's exit,
\* so no state is written while the day loop runs.
C17_StateWrittenOnce ==
    /\ Len(StateWrites(out)) <= 1
    /\ StateWrites(out) # <<>> =>
          /\ out[Len(out)].type = "STATE"
          /\ \/ pc = "done" /\ failure = "none"
             \/ pc = "exited" /\ failure = "network" /\ exitStatus = ExitCode(HandlerExitArg)
    /\ pc = "done" => Len(StateWrites(out)) = 1

C17_Witness ==
    /\ pc = "exited"
    /\ failure = "network"
    /\ Len(dayLog) = 1
    /\ Len(StateWrites(out)) = 1
    /\ Len(out) > 1

Terminated == pc \in {"done", "exited"}

\* every HTTP call returns or raises: the process never stays in one for ever
HttpCallsComplete == (pc = "day") ~> (pc # "day")

\* C18: each completed iteration moves the day to fetch strictly forward, never
\* beyond the day after the date the loop test read; and provided every HTTP
\* call returns or raises, the process terminates, normally or by an exit.
C18_RunTerminates ==
    /\ [][(pc = "day" /\ pc' = "loop")
            => /\ Strptime(next_date') > Strptime(next_date)
               /\ Strptime(next_date') <= today + 1]_vars
    /\ HttpCallsComplete => <>Terminated

\* without that proviso: every process terminates (it does not: a provider that
\* never answers keeps the process in the call of line 68)
TerminatesUnconditionally == <>Terminated

C18_Witness ==
    /\ pc = "done"
    /\ today > Strptime(start_date)
    /\ Len(dayLog) = 2
    /\ Strptime(next_date) = today + 1

\* C19: a connection-level fault is retried: the helper raises after such a
\* fault only when it was the fault of the fifth try, and what it raises is the
\* fault itself.
C19_ConnectionFaultRetried ==
    (req.pc = "raised" /\ req.log[Len(req.log)].kind = "ConnectionError")
        => /\ req.tries = MaxTries
           /\ req.raised = "ConnectionError"

====
